---- MODULE Spec2Model ----
(***************************************************************************)
(* Model of freeshot (src/src/main.rs): the lasso selection session of an  *)
(* App, its event handlers (resumed, window_event), the scanline mask      *)
(* rasterizer selection_mask, the crop extractor selection_image and the   *)
(* clipboard hand-over provide_image_for_pasting.                          *)
(*                                                                         *)
(* Coordinates.  A PhysicalPosition<f64> is modelled as a pair <<x, y>> of *)
(* integers counting 1/Scale of a pixel, so <<5, 3>> with Scale = 2 is the *)
(* position (2.5, 1.5).  All arithmetic on positions is exact rational     *)
(* arithmetic; for the positions used here f64 arithmetic gives the same   *)
(* ordering of crossings and the same floor and ceil of every crossing.    *)
(* Time is counted in whole milliseconds (Duration::as_millis truncates).  *)
(***************************************************************************)
EXTENDS Integers, Sequences, FiniteSets, TLC

VARIABLES
    pc,                    \* "running", "exited" (event_loop.exit), "panicked", "aborted"
    window,                \* App.window is Some
    pixels,                \* App.pixels is Some
    image,                 \* App.image: [width, height, data]
    cursor_pos,            \* App.cursor_pos
    selecting,             \* App.selecting
    last_selection_event,  \* App.last_selection_event (ms)
    selection,             \* App.selection
    frame,                 \* the byte buffer behind pixels.frame_mut()
    now,                   \* the monotonic clock read by Instant::now() (ms)
    redraw_pending,        \* a request_redraw not yet answered by RedrawRequested
    event,                 \* the event handled last
    calls,                 \* the collaborator calls the last handler made, in order
    inside_mask,           \* the mask the last handler computed (selection_mask result)
    clip,                  \* the image the last handler built with selection_image
    last_button,           \* the most recent pointer-button event
    before                 \* selecting and selection as the last handler found them

vars == <<pc, window, pixels, image, cursor_pos, selecting, last_selection_event,
          selection, frame, now, redraw_pending, event, calls, inside_mask, clip,
          last_button, before>>

----------------------------------------------------------------------------
(* Bounds of the model *)

SubPixelBits == 1   \* binary digits a position keeps behind the point
ImgW == 4           \* width of the captured raster in the session specification
ImgH == 3           \* height of the captured raster in the session specification
MaxTime == 300      \* the clock stops advancing here
ShapeW == 6         \* raster width of the polygon families
ShapeH == 5         \* raster height of the polygon families

\* a position counts 1/Scale of a pixel; Scale is a power of two, so every
\* position of the model is an f64
Scale == 2 ^ SubPixelBits

(* Program constants *)

ThrottleMs == 100

----------------------------------------------------------------------------
(* Arithmetic helpers *)

Min2(a, b) == IF a <= b THEN a ELSE b
Max2(a, b) == IF a >= b THEN a ELSE b

\* floor and ceiling of the rational n/d, d > 0
FloorDiv(n, d) == IF n >= 0 THEN n \div d ELSE -((-n + d - 1) \div d)
CeilDiv(n, d) == -FloorDiv(-n, d)

\* `f as usize` / `f as u32` for an integral or fractional f64: truncation
\* toward zero, negative values saturate to 0.  The argument is n/d.
AsUnsigned(n, d) == IF n <= 0 THEN 0 ELSE n \div d

\* x as u32 of a position coordinate
AsU32(c) == AsUnsigned(c, Scale)

\* rationals <<n, d>> with d > 0
RatLeq(a, b) == a[1] * b[2] <= b[1] * a[2]
RatMax(a, b) == IF RatLeq(a, b) THEN b ELSE a
RatMin(a, b) == IF RatLeq(a, b) THEN a ELSE b

----------------------------------------------------------------------------
(* selection_mask: even-odd scanline fill *)

SeqMin(s, f0) == LET RECURSIVE Go(_, _)
                     Go(i, acc) == IF i > Len(s) THEN acc ELSE Go(i + 1, Min2(acc, s[i]))
                 IN Go(1, f0)
SeqMax(s, f0) == LET RECURSIVE Go(_, _)
                     Go(i, acc) == IF i > Len(s) THEN acc ELSE Go(i + 1, Max2(acc, s[i]))
                 IN Go(1, f0)

\* the y coordinates of a polygon
Ys(polygon) == [i \in 1..Len(polygon) |-> polygon[i][2]]

\* first scanline: min_y.max(0.0).ceil() as usize
ScanMinY(polygon) ==
    LET min_y == SeqMin(Ys(polygon), polygon[1][2])
    IN AsUnsigned(CeilDiv(Max2(min_y, 0), Scale), 1)

\* a last scanline that is not limited to the image height
ScanMaxY_Unclamped(height, polygon) ==
    LET max_y == SeqMax(Ys(polygon), polygon[1][2])
    IN AsUnsigned(FloorDiv(max_y, Scale), 1)

\* last scanline: max_y.min((height - 1) as f64).floor() as usize
ScanMaxY(height, polygon) ==
    LET max_y == SeqMax(Ys(polygon), polygon[1][2])
    IN AsUnsigned(FloorDiv(Min2(max_y, (height - 1) * Scale), Scale), 1)

\* the crossing test of an edge p1 -> p2 with scanline y
Crosses(p1, p2, y) ==
    \/ p1[2] <= y * Scale /\ p2[2] > y * Scale
    \/ p2[2] <= y * Scale /\ p1[2] > y * Scale

\* intersect_x = p1.x + (y - p1.y) * slope, in pixels, as a rational <<n, d>>
IntersectX(p1, p2, y) ==
    LET dy == p2[2] - p1[2]
        dx == p2[1] - p1[1]
        n == p1[1] * dy + (y * Scale - p1[2]) * dx
        d == dy * Scale
    IN IF d > 0 THEN <<n, d>> ELSE <<-n, -d>>

\* the intersections pushed for scanline y, in edge order i = 0 .. len-1
Intersections(polygon, y) ==
    LET len == Len(polygon)
        RECURSIVE Go(_)
        Go(i) == IF i >= len THEN <<>>
                 ELSE LET j == (i + 1) % len
                          p1 == polygon[i + 1]
                          p2 == polygon[j + 1]
                      IN (IF Crosses(p1, p2, y) THEN <<IntersectX(p1, p2, y)>> ELSE <<>>)
                         \o Go(i + 1)
    IN Go(0)

\* intersections.sort_by(partial_cmp): stable ascending sort
SortInsert(s, r) ==
    LET k == Cardinality({i \in 1..Len(s) : RatLeq(s[i], r)})
    IN SubSeq(s, 1, k) \o <<r>> \o SubSeq(s, k + 1, Len(s))

SortAscending(s) ==
    LET RECURSIVE Go(_)
        Go(n) == IF n = 0 THEN <<>> ELSE SortInsert(Go(n - 1), s[n])
    IN Go(Len(s))

\* start.max(0.0).ceil() as usize
SpanStart(start) == AsUnsigned(CeilDiv(RatMax(start, <<0, 1>>)[1], start[2]), 1)

\* a span end that stops one pixel before the crossing
SpanEnd_Exclusive(width, end) ==
    LET m == RatMin(end, <<width - 1, 1>>)
    IN AsUnsigned(FloorDiv(m[1], m[2]) - 1, 1)

\* end.min((width - 1) as f64).floor() as usize
SpanEnd(width, end) ==
    LET m == RatMin(end, <<width - 1, 1>>)
    IN AsUnsigned(FloorDiv(m[1], m[2]), 1)

\* the pixels <<x, y>> set to true on scanline y: chunks(2) of the sorted
\* intersections, a trailing single intersection is skipped
SpanWrites(width, polygon, y) ==
    LET xs == SortAscending(Intersections(polygon, y))
    IN UNION { { <<x, y>> : x \in { c \in SpanStart(xs[2 * k - 1]) .. SpanEnd(width, xs[2 * k]) :
                                    c < width } } :
               k \in 1..(Len(xs) \div 2) }

\* every mask[y * width + x] = true the function performs
MaskWrites(width, height, polygon) ==
    IF Len(polygon) < 3 THEN {}
    ELSE UNION { SpanWrites(width, polygon, y) :
                 y \in ScanMinY(polygon) .. ScanMaxY(height, polygon) }

selection_mask(width, height, polygon) ==
    LET idx == { w[2] * width + w[1] : w \in MaskWrites(width, height, polygon) }
    IN [i \in 0..(width * height - 1) |-> i \in idx]

----------------------------------------------------------------------------
(* Rasters *)

\* an ImageBuffer<Rgba<u8>>: row-major pixels <<r, g, b, a>>, index y * width + x
Raster(w, h, px) == [width |-> w, height |-> h, data |-> [i \in 0..(w * h - 1) |-> px[i]]]

\* the raster delivered by monitor.capture_image(); k selects one of the
\* captured pictures of the model.  Alpha takes the values 255, 128 and 1.
Capture(w, h, k) ==
    LET px == [i \in 0..(w * h - 1) |->
                 << (7 * i + k) % 256, (13 * i + 3 * k) % 256, (29 * i + 5) % 256,
                    255 - 127 * ((i + k) % 3) >>]
    IN Raster(w, h, px)

\* ImageBuffer::new(w, h): every channel zero
Blank(w, h) == Raster(w, h, [i \in 0..(w * h - 1) |-> <<0, 0, 0, 0>>])

None == <<>>
Some(v) == <<v>>

----------------------------------------------------------------------------
(* RedrawRequested: the frame compositor *)

\* a compositor that halves the alpha inside the selection instead of outside
Composite_DimsInside(img, polygon) ==
    LET mask == selection_mask(img.width, img.height, polygon)
    IN [b \in 0..(img.width * img.height * 4 - 1) |->
          LET i == b \div 4
              c == b % 4
              color == img.data[i]
          IN IF Len(polygon) >= 3
             THEN IF c < 3 THEN color[c + 1]
                  ELSE IF mask[i] THEN color[4] \div 2 ELSE color[4]
             ELSE color[c + 1]]

Composite(img, polygon) ==
    LET mask == selection_mask(img.width, img.height, polygon)
    IN [b \in 0..(img.width * img.height * 4 - 1) |->
          LET i == b \div 4
              c == b % 4
              color == img.data[i]
          IN IF Len(polygon) >= 3
             THEN IF c < 3 THEN color[c + 1]
                  ELSE IF mask[i] THEN color[4] ELSE color[4] \div 2
             ELSE color[c + 1]]

----------------------------------------------------------------------------
(* selection_image: the crop extractor *)

\* a bounding box whose min_x starts at 0 instead of the raster width
CropMinX_FromZero(img, polygon) == SeqMin([i \in 1..Len(polygon) |-> AsU32(polygon[i][1])], 0)

CropMinX(img, polygon) == SeqMin([i \in 1..Len(polygon) |-> AsU32(polygon[i][1])], img.width)
CropMinY(img, polygon) == SeqMin([i \in 1..Len(polygon) |-> AsU32(polygon[i][2])], img.height)
CropMaxX(img, polygon) == SeqMax([i \in 1..Len(polygon) |-> AsU32(polygon[i][1])], 0)
CropMaxY(img, polygon) == SeqMax([i \in 1..Len(polygon) |-> AsU32(polygon[i][2])], 0)

\* max_x - min_x or max_y - min_y is negative in u32: the subtraction panics
\* with overflow checks, and without them ImageBuffer::new panics on the
\* wrapped dimensions (the buffer length overflows usize)
CropUnderflows(img, polygon) ==
    \/ CropMaxX(img, polygon) < CropMinX(img, polygon)
    \/ CropMaxY(img, polygon) < CropMinY(img, polygon)

\* the source pixels <<x, y>> the double loop visits
CropVisits(img, polygon) ==
    { <<x, y>> : x \in CropMinX(img, polygon) .. (CropMaxX(img, polygon) - 1),
                 y \in CropMinY(img, polygon) .. (CropMaxY(img, polygon) - 1) }

\* a visited pixel whose index y * iw + x lies behind the buffer: the
\* unchecked read leaves the buffer and inside_mask[i] fails its bounds check
CropOutOfBounds(img, polygon) ==
    \E v \in CropVisits(img, polygon) : v[2] * img.width + v[1] >= img.width * img.height

\* the raster selection_image returns when it returns
selection_image(img, polygon) ==
    LET min_x == CropMinX(img, polygon)
        min_y == CropMinY(img, polygon)
        w == CropMaxX(img, polygon) - min_x
        h == CropMaxY(img, polygon) - min_y
        mask == selection_mask(img.width, img.height, polygon)
        px == [o \in 0..(w * h - 1) |->
                 LET x == min_x + (o % w)
                     y == min_y + (o \div w)
                     i == y * img.width + x
                 IN IF mask[i] THEN img.data[i] ELSE <<0, 0, 0, 0>>]
    IN Raster(w, h, px)

----------------------------------------------------------------------------
(* The session: App::new and the event handlers *)

\* pointer positions the window delivers: three inside the raster (one of
\* them off the pixel grid), one left of it and one beyond its right and
\* bottom edge
Positions ==
    { <<0, 0>>, <<(ImgW - 1) * Scale, 0>>, <<Scale + 1, (ImgH - 1) * Scale + 1>>,
      <<-Scale, Scale>>, <<(ImgW + 1) * Scale, ImgH * Scale + 1>> }

\* clock advance between two readings of Instant::now() (ms)
Delays == {0, ThrottleMs - 1, ThrottleMs}

\* what the platform clipboard does with a publish
ClipboardOutcomes == {"ok", "unavailable", "publish_failed"}

Snapshot(sel, polygon) == [selecting |-> sel, selection |-> polygon]

\* App::new(image) right after the capture
Init ==
    /\ pc = "running"
    /\ window = FALSE
    /\ pixels = FALSE
    /\ image = Capture(ImgW, ImgH, 1)
    /\ cursor_pos = <<0, 0>>
    /\ selecting = FALSE
    /\ now = 0
    /\ last_selection_event = 0
    /\ selection = <<>>
    /\ frame = <<>>
    /\ redraw_pending = FALSE
    /\ event = <<"none">>
    /\ calls = <<>>
    /\ inside_mask = None
    /\ clip = None
    /\ last_button = "none"
    /\ before = Snapshot(FALSE, <<>>)

\* ApplicationHandler::resumed
Resumed(created) ==
    /\ pc = "running"
    /\ ~window
    /\ event' = <<"resumed">>
    /\ before' = Snapshot(selecting, selection)
    /\ IF created
       THEN /\ window' = TRUE
            /\ calls' = <<"create_window">>
            /\ pc' = pc
       ELSE /\ window' = window
            /\ calls' = <<"create_window", "panic">>
            /\ pc' = "panicked"
    /\ inside_mask' = None
    /\ clip' = None
    /\ UNCHANGED <<pixels, image, cursor_pos, selecting, last_selection_event, selection,
                   frame, now, redraw_pending, last_button>>

\* WindowEvent::CloseRequested
CloseRequested ==
    /\ pc = "running"
    /\ window
    /\ event' = <<"close">>
    /\ before' = Snapshot(selecting, selection)
    /\ calls' = <<"log: The close button was pressed; stopping", "exit">>
    /\ pc' = "exited"
    /\ inside_mask' = None
    /\ clip' = None
    /\ UNCHANGED <<window, pixels, image, cursor_pos, selecting, last_selection_event,
                   selection, frame, now, redraw_pending, last_button>>

\* WindowEvent::RedrawRequested; surface_ok: Pixels::new succeeds,
\* rendered: pixels.render() succeeds
RedrawRequested(surface_ok, rendered) ==
    /\ pc = "running"
    /\ window
    /\ event' = <<"redraw">>
    /\ before' = Snapshot(selecting, selection)
    /\ redraw_pending' = FALSE
    /\ clip' = None
    /\ IF ~pixels /\ ~surface_ok
       THEN /\ pc' = "panicked"
            /\ calls' = <<"Pixels::new", "panic">>
            /\ inside_mask' = None
            /\ UNCHANGED <<pixels, frame>>
       ELSE /\ pixels' = TRUE
            /\ frame' = Composite(image, selection)
            /\ inside_mask' = IF Len(selection) >= 3
                              THEN Some(selection_mask(image.width, image.height, selection))
                              ELSE None
            /\ calls' = (IF pixels THEN <<>> ELSE <<"Pixels::new">>)
                        \o <<"frame_mut", "render">>
                        \o (IF rendered THEN <<>> ELSE <<"panic">>)
            /\ pc' = IF rendered THEN pc ELSE "panicked"
    /\ UNCHANGED <<window, image, cursor_pos, selecting, last_selection_event, selection,
                   now, last_button>>

\* the throttle with a strict comparison
Accepts_Strict(sel, elapsed) == sel /\ elapsed > ThrottleMs

\* the throttle without the selecting flag
Accepts_AnyState(sel, elapsed) == elapsed >= ThrottleMs

\* the selecting flag without the throttle
Accepts_NoThrottle(sel, elapsed) == sel

\* the throttle: self.selecting && elapsed.as_millis() >= 100
Accepts(sel, elapsed) == sel /\ elapsed >= ThrottleMs

\* WindowEvent::CursorMoved; d: the time since the clock was last read
CursorMoved(position, d) ==
    /\ pc = "running"
    /\ window
    /\ now + d <= MaxTime
    /\ event' = <<"move", position>>
    /\ before' = Snapshot(selecting, selection)
    /\ cursor_pos' = position
    /\ now' = now + d
    /\ LET elapsed == now' - last_selection_event
       IN IF Accepts(selecting, elapsed)
          THEN /\ selection' = Append(selection, position)
               /\ calls' = <<"request_redraw">>
               /\ redraw_pending' = TRUE
               /\ last_selection_event' = now'
          ELSE /\ calls' = <<>>
               /\ UNCHANGED <<selection, redraw_pending, last_selection_event>>
    /\ inside_mask' = None
    /\ clip' = None
    /\ UNCHANGED <<pc, window, pixels, image, selecting, frame, last_button>>

\* provide_image_for_pasting: the calls it makes and whether it returns
PasteCalls(outcome) ==
    IF outcome = "unavailable" THEN <<"Clipboard::new", "panic">>
    ELSE IF outcome = "publish_failed" THEN <<"Clipboard::new", "set_image", "panic">>
    ELSE <<"Clipboard::new", "set_image", "log: Image copied to clipboard!">>

\* a pointer-down that keeps the accumulated points
MousePressed_KeepsPoints ==
    /\ pc = "running"
    /\ window
    /\ event' = <<"press">>
    /\ before' = Snapshot(selecting, selection)
    /\ last_button' = "pressed"
    /\ selecting' = TRUE
    /\ calls' = <<>>
    /\ inside_mask' = None
    /\ clip' = None
    /\ UNCHANGED <<pc, window, pixels, image, cursor_pos, last_selection_event, frame, now,
                   redraw_pending, selection>>

\* WindowEvent::MouseInput with state.is_pressed()
MousePressed ==
    /\ pc = "running"
    /\ window
    /\ event' = <<"press">>
    /\ before' = Snapshot(selecting, selection)
    /\ last_button' = "pressed"
    /\ selecting' = TRUE
    /\ selection' = <<>>
    /\ calls' = <<>>
    /\ inside_mask' = None
    /\ clip' = None
    /\ UNCHANGED <<pc, window, pixels, image, cursor_pos, last_selection_event, frame, now,
                   redraw_pending>>

\* WindowEvent::MouseInput with a released button, selection_image panicking
\* on max_x - min_x; checked: the build has overflow checks (the panic then
\* precedes the size log line)
MouseReleasedUnderflow(checked) ==
    /\ pc = "running"
    /\ window
    /\ CropUnderflows(image, selection)
    /\ event' = <<"release">>
    /\ before' = Snapshot(selecting, selection)
    /\ last_button' = "released"
    /\ selecting' = FALSE
    /\ calls' = <<"log: Mouse up, finishing", "selection_image">>
                \o (IF checked THEN <<>> ELSE <<"log: Selection size">>)
                \o <<"panic">>
    /\ inside_mask' = None
    /\ clip' = None
    /\ pc' = "panicked"
    /\ UNCHANGED <<window, pixels, image, cursor_pos, last_selection_event, selection, frame,
                   now, redraw_pending>>

\* WindowEvent::MouseInput with a released button, selection_image reading
\* behind the raster; fault: the unchecked read traps before the bounds
\* check of inside_mask[i] panics
MouseReleasedOutOfBounds(fault) ==
    /\ pc = "running"
    /\ window
    /\ ~CropUnderflows(image, selection)
    /\ CropOutOfBounds(image, selection)
    /\ event' = <<"release">>
    /\ before' = Snapshot(selecting, selection)
    /\ last_button' = "released"
    /\ selecting' = FALSE
    /\ calls' = <<"log: Mouse up, finishing", "selection_image", "log: Selection size">>
                \o (IF fault THEN <<>> ELSE <<"panic">>)
    /\ inside_mask' = Some(selection_mask(image.width, image.height, selection))
    /\ clip' = None
    /\ pc' = IF fault THEN "aborted" ELSE "panicked"
    /\ UNCHANGED <<window, pixels, image, cursor_pos, last_selection_event, selection, frame,
                   now, redraw_pending>>

\* WindowEvent::MouseInput with a released button, selection_image returning;
\* outcome: what the clipboard does with the image
MouseReleased(outcome) ==
    /\ pc = "running"
    /\ window
    /\ ~CropUnderflows(image, selection)
    /\ ~CropOutOfBounds(image, selection)
    /\ event' = <<"release">>
    /\ before' = Snapshot(selecting, selection)
    /\ last_button' = "released"
    /\ selecting' = FALSE
    /\ calls' = <<"log: Mouse up, finishing", "selection_image", "log: Selection size">>
                \o PasteCalls(outcome)
    /\ inside_mask' = Some(selection_mask(image.width, image.height, selection))
    /\ clip' = Some(selection_image(image, selection))
    /\ pc' = IF outcome = "ok" THEN pc ELSE "panicked"
    /\ UNCHANGED <<window, pixels, image, cursor_pos, last_selection_event, selection, frame,
                   now, redraw_pending>>

Next ==
    \/ \E created \in BOOLEAN : Resumed(created)
    \/ CloseRequested
    \/ \E surface_ok, rendered \in BOOLEAN : RedrawRequested(surface_ok, rendered)
    \/ \E position \in Positions, d \in Delays : CursorMoved(position, d)
    \/ MousePressed
    \/ \E checked \in BOOLEAN : MouseReleasedUnderflow(checked)
    \/ \E fault \in BOOLEAN : MouseReleasedOutOfBounds(fault)
    \/ \E outcome \in ClipboardOutcomes : MouseReleased(outcome)

Spec == Init /\ [][Next]_vars

----------------------------------------------------------------------------
(* Finished polygons: the session right after the last point of a polygon  *)
(* was accepted, followed by the redraw and the pointer-up that use it     *)

\* a position on the pixel grid
Px(x, y) == <<x * Scale, y * Scale>>

\* the rectangles (x0,y0),(x0,y1),(x1,y1),(x1,y0) with integer corners inside
\* a w x h raster
Rectangles(w, h) ==
    { << Px(x0, y0), Px(x0, y1), Px(x1, y1), Px(x1, y0) >> :
        <<x0, x1, y0, y1>> \in { r \in (0..(w - 1)) \X (0..(w - 1)) \X (0..(h - 1)) \X (0..(h - 1)) :
                                   r[1] < r[2] /\ r[3] < r[4] } }

\* polygons of three and four points drawn from five positions inside a
\* w x h raster, two of them off the pixel grid
Corners(w, h) ==
    { Px(0, 0), Px(w - 1, 0), Px(0, h - 1), <<w * Scale - 1, h * Scale - 1>>,
      <<2 * Scale + 1, Scale + 1>> }

Polygons(w, h) ==
    LET c == Corners(w, h)
    IN { <<p[1], p[2], p[3]>> : p \in c \X c \X c }
       \cup { <<p[1], p[2], p[3], p[4]>> : p \in c \X c \X c \X c }

ExampleSquare == << Px(10, 10), Px(10, 20), Px(20, 20), Px(20, 10) >>
ExampleTriangle == << Px(0, 0), Px(10, 0), Px(0, 10) >>

\* raster size and polygon of a finished selection
ShapeInputs ==
    { [w |-> ShapeW, h |-> ShapeH, polygon |-> r] : r \in Rectangles(ShapeW, ShapeH) }
    \cup { [w |-> ShapeW, h |-> ShapeH, polygon |-> r] : r \in Polygons(ShapeW, ShapeH) }
    \cup { [w |-> 30, h |-> 30, polygon |-> ExampleSquare],
           [w |-> 20, h |-> 20, polygon |-> ExampleTriangle] }

\* the session when the last point of in.polygon has just been accepted,
\* every point at the earliest time the throttle allows
InitShapes ==
    \E in \in ShapeInputs :
        /\ pc = "running"
        /\ window = TRUE
        /\ pixels = FALSE
        /\ image = Capture(in.w, in.h, 2)
        /\ cursor_pos = in.polygon[Len(in.polygon)]
        /\ selecting = TRUE
        /\ now = ThrottleMs * Len(in.polygon)
        /\ last_selection_event = now
        /\ selection = in.polygon
        /\ frame = <<>>
        /\ redraw_pending = TRUE
        /\ event = <<"move", cursor_pos>>
        /\ calls = <<"request_redraw">>
        /\ inside_mask = None
        /\ clip = None
        /\ last_button = "pressed"
        /\ before = Snapshot(TRUE, SubSeq(in.polygon, 1, Len(in.polygon) - 1))

NextShapes ==
    \/ \E surface_ok, rendered \in BOOLEAN : RedrawRequested(surface_ok, rendered)
    \/ \E outcome \in ClipboardOutcomes : MouseReleased(outcome)

SpecShapes == InitShapes /\ [][NextShapes]_vars

----------------------------------------------------------------------------
(* selection_mask on its own: a session holding a raster and a polygon, and *)
(* the call selection_mask(iw, ih, &self.selection) applied to it           *)

\* the bowtie (0,0),(n,0),(0,n),(n,n): lobes above and below the pinch point
BowtieVertical(n) == << Px(0, 0), Px(n, 0), Px(0, n), Px(n, n) >>

\* the bowtie (0,0),(n,n),(n,0),(0,n): lobes left and right of the pinch point
BowtieHorizontal(n) == << Px(0, 0), Px(n, n), Px(n, 0), Px(0, n) >>

\* a bowtie whose left lobe lies left of column 0
BowtieLeft(n) == << Px(-n, 0), Px(n, n), Px(n, 0), Px(-n, n) >>

\* a concave arrow head pointing right
Arrow(n) == << Px(0, 0), Px(n, n \div 2), Px(0, n), Px(n \div 2, n \div 2) >>

\* a rectangle left of column 0
LeftOfRaster(n) == << Px(-3, 0), Px(-3, n), Px(-1, n), Px(-1, 0) >>

\* a rectangle right of column w - 1
RightOfRaster(w, n) == << Px(w + 1, 0), Px(w + 1, n), Px(w + 3, n), Px(w + 3, 0) >>

\* the self-intersecting and concave polygons of the model
EvenOddShapes ==
    { BowtieVertical(4), BowtieHorizontal(4), BowtieLeft(4), Arrow(4) }

\* positions inside and around a w x h raster
MaskPoints(w, h) ==
    { Px(0, 0), Px(w - 1, 0), Px(0, h - 1), <<w * Scale - 1, h * Scale - 1>>,
      <<2 * Scale + 1, Scale + 1>>,
      Px(-3, 0), Px(-1, h + 1), Px(w + 2, 1), Px(1, -2) }

\* every polygon of at most three of these positions, and the named shapes
MaskPolygons(w, h) ==
    LET c == MaskPoints(w, h)
    IN { <<>> } \cup { <<p>> : p \in c } \cup { <<p[1], p[2]>> : p \in c \X c }
       \cup { <<p[1], p[2], p[3]>> : p \in c \X c \X c }
       \cup EvenOddShapes \cup { LeftOfRaster(3), RightOfRaster(w, 3) }

\* the raster sizes selection_mask is applied to
MaskSizes == { <<ShapeW, ShapeH>>, <<1, 1>>, <<ShapeW, 1>>, <<1, ShapeH>> }

MaskInputs ==
    { [w |-> d[1], h |-> d[2], polygon |-> r] :
        d \in MaskSizes, r \in MaskPolygons(ShapeW, ShapeH) }

\* the session holding in.polygon: after the pointer-down when the polygon
\* is empty, after the move that added its last point otherwise
InitMask ==
    \E in \in MaskInputs :
        /\ pc = "running"
        /\ window = TRUE
        /\ pixels = FALSE
        /\ image = Capture(in.w, in.h, 1)
        /\ selecting = TRUE
        /\ now = ThrottleMs * Len(in.polygon)
        /\ last_selection_event = now
        /\ selection = in.polygon
        /\ frame = <<>>
        /\ inside_mask = None
        /\ clip = None
        /\ last_button = "pressed"
        /\ IF Len(in.polygon) = 0
           THEN /\ cursor_pos = <<0, 0>>
                /\ event = <<"press">>
                /\ calls = <<>>
                /\ redraw_pending = FALSE
                /\ before = Snapshot(FALSE, <<>>)
           ELSE /\ cursor_pos = in.polygon[Len(in.polygon)]
                /\ event = <<"move", cursor_pos>>
                /\ calls = <<"request_redraw">>
                /\ redraw_pending = TRUE
                /\ before = Snapshot(TRUE, SubSeq(in.polygon, 1, Len(in.polygon) - 1))

\* let inside_mask = selection_mask(iw as usize, ih as usize, &self.selection)
Rasterize ==
    /\ pc = "running"
    /\ event' = <<"selection_mask">>
    /\ before' = Snapshot(selecting, selection)
    /\ calls' = <<>>
    /\ inside_mask' = Some(selection_mask(image.width, image.height, selection))
    /\ clip' = None
    /\ UNCHANGED <<pc, window, pixels, image, cursor_pos, selecting, last_selection_event,
                   selection, frame, now, redraw_pending, last_button>>

NextMask == Rasterize

SpecMask == InitMask /\ [][NextMask]_vars

----------------------------------------------------------------------------
(* Properties *)

Range(s) == { s[i] : i \in 1..Len(s) }
Count(s, e) == Cardinality({ i \in 1..Len(s) : s[i] = e })
SetMin(S) == CHOOSE m \in S : \A n \in S : m <= n
SetMax(S) == CHOOSE m \in S : \A n \in S : m >= n

\* every point of the polygon lies inside the raster
InsideRaster(polygon, img) ==
    \A i \in 1..Len(polygon) :
        /\ 0 <= polygon[i][1] /\ polygon[i][1] < img.width * Scale
        /\ 0 <= polygon[i][2] /\ polygon[i][2] < img.height * Scale

\* C1: a pointer-move appends its position to the polygon iff the session is
\* Selecting and at least 100 ms have passed since last_selection_event; an
\* accepted move appends exactly that one point, requests a redraw and sets
\* the timestamp to the current time; a rejected move leaves polygon and
\* timestamp alone and requests no redraw.
C1_MoveAcceptedIffThrottleElapsed ==
    [][ event'[1] = "move" =>
          IF selecting /\ now' - last_selection_event >= 100
          THEN /\ selection' = Append(selection, event'[2])
               /\ calls' = <<"request_redraw">>
               /\ redraw_pending'
               /\ last_selection_event' = now'
          ELSE /\ selection' = selection
               /\ last_selection_event' = last_selection_event
               /\ calls' = <<>>
               /\ redraw_pending' = redraw_pending ]_vars

\* two points accepted, each exactly 100 ms after the previous timestamp
C1_Witness ==
    /\ event[1] = "move"
    /\ calls = <<"request_redraw">>
    /\ Len(selection) = 2
    /\ selection = Append(before.selection, event[2])
    /\ now = 200
    /\ last_selection_event = now

\* C2: a pointer-down in any state leaves the session Selecting with an
\* empty polygon and requests no redraw; the points of a gesture in progress
\* are discarded.
C2_PressClearsPolygon ==
    [][ event'[1] = "press" =>
          /\ selecting'
          /\ selection' = <<>>
          /\ calls' = <<>>
          /\ redraw_pending' = redraw_pending ]_vars

\* a pointer-down that arrived while Selecting with points accumulated
C2_Witness ==
    /\ event[1] = "press"
    /\ before.selecting
    /\ Len(before.selection) >= 1
    /\ selecting
    /\ selection = <<>>

\* C3: a pointer-up while Selecting sets the session to Idle and triggers
\* exactly one crop extraction and one clipboard delivery, computed from the
\* polygon as accumulated, which the pointer-up leaves unchanged.
C3_ReleaseExtractsAndDeliversOnce ==
    (event[1] = "release" /\ before.selecting) =>
        /\ ~selecting
        /\ selection = before.selection
        /\ Count(calls, "selection_image") = 1
        /\ Count(calls, "set_image") = 1
        /\ clip = Some(selection_image(image, before.selection))

\* C4: crop extraction on a polygon of fewer than 3 points never panics: it
\* emits an empty (0x0) raster and reports "selection too small", and the
\* event loop keeps running.
C4_DegenerateCropIsGraceful ==
    (event[1] = "release" /\ before.selecting /\ Len(selection) < 3) =>
        /\ pc # "aborted"
        /\ pc = "panicked" => "Clipboard::new" \in Range(calls)
        /\ clip = Some(Blank(0, 0))
        /\ "log: selection too small" \in Range(calls)

\* C5: a redraw writes every byte of the frame: R, G, B of pixel i are the
\* source's, alpha is the source alpha if the polygon has fewer than 3
\* points or the mask marks i inside, and the source alpha halved (rounded
\* down) otherwise.
C5_FrameIsDimmedOutsideMask ==
    (event[1] = "redraw" /\ "frame_mut" \in Range(calls)) =>
        /\ DOMAIN frame = 0..(image.width * image.height * 4 - 1)
        /\ (Len(selection) >= 3) = (inside_mask # None)
        /\ \A i \in 0..(image.width * image.height - 1) :
              /\ frame[4 * i] = image.data[i][1]
              /\ frame[4 * i + 1] = image.data[i][2]
              /\ frame[4 * i + 2] = image.data[i][3]
              /\ frame[4 * i + 3] = IF Len(selection) < 3 \/ inside_mask[1][i]
                                    THEN image.data[i][4]
                                    ELSE image.data[i][4] \div 2

\* a redraw of a polygon with pixels inside and an opaque pixel outside,
\* whose alpha 255 became 127
C5_Witness ==
    /\ event[1] = "redraw"
    /\ "frame_mut" \in Range(calls)
    /\ Len(selection) >= 3
    /\ \E i \in DOMAIN inside_mask[1] : inside_mask[1][i] /\ frame[4 * i + 3] = image.data[i][4]
    /\ \E j \in DOMAIN inside_mask[1] :
          ~inside_mask[1][j] /\ image.data[j][4] = 255 /\ frame[4 * j + 3] = 127

\* the polygon is a rectangle (x0,y0),(x0,y1),(x1,y1),(x1,y0) with integer
\* corners, x0 < x1 and y0 < y1
IsRectangle(polygon) ==
    /\ Len(polygon) = 4
    /\ \A i \in 1..4 : polygon[i][1] % Scale = 0 /\ polygon[i][2] % Scale = 0
    /\ polygon[2][1] = polygon[1][1] /\ polygon[4][1] = polygon[3][1]
    /\ polygon[4][2] = polygon[1][2] /\ polygon[3][2] = polygon[2][2]
    /\ polygon[1][1] < polygon[3][1] /\ polygon[1][2] < polygon[3][2]

\* C6: for an axis-aligned rectangle with integer corners inside the raster
\* the mask marks exactly the pixels with x0 <= x < x1 and y0 <= y < y1.
C6_RectangleMaskIsHalfOpen ==
    (inside_mask # None /\ IsRectangle(selection) /\ InsideRaster(selection, image)) =>
        LET x0 == selection[1][1] \div Scale
            y0 == selection[1][2] \div Scale
            x1 == selection[3][1] \div Scale
            y1 == selection[3][2] \div Scale
        IN \A x \in 0..(image.width - 1), y \in 0..(image.height - 1) :
              inside_mask[1][y * image.width + x] = (x0 <= x /\ x < x1 /\ y0 <= y /\ y < y1)

\* C6 as amended: for an axis-aligned rectangle with integer corners inside
\* the raster the mask marks exactly the pixels with x0 <= x <= x1 and
\* y0 <= y < y1: the column of the right edge is filled, the row of the
\* bottom edge is not.
C6_RectangleMaskIncludesRightEdge ==
    (inside_mask # None /\ IsRectangle(selection) /\ InsideRaster(selection, image)) =>
        LET x0 == selection[1][1] \div Scale
            y0 == selection[1][2] \div Scale
            x1 == selection[3][1] \div Scale
            y1 == selection[3][2] \div Scale
        IN \A x \in 0..(image.width - 1), y \in 0..(image.height - 1) :
              inside_mask[1][y * image.width + x] = (x0 <= x /\ x <= x1 /\ y0 <= y /\ y < y1)

\* the mask of the square (10,10),(10,20),(20,20),(20,10) on a 30x30 raster:
\* column 20 is inside on row 19, row 20 and column 21 are outside
C6_Witness ==
    /\ inside_mask # None
    /\ selection = ExampleSquare
    /\ image.width = 30 /\ image.height = 30
    /\ inside_mask[1][19 * 30 + 20]
    /\ inside_mask[1][10 * 30 + 10]
    /\ ~inside_mask[1][20 * 30 + 15]
    /\ ~inside_mask[1][15 * 30 + 21]

\* C7: for a polygon of at least 3 points inside the raster the crop has
\* size (max_x - min_x) x (max_y - min_y) over the truncated bounding box and
\* output pixel (u,v) is source pixel (min_x+u, min_y+v) where the mask marks
\* it inside and all-zero elsewhere; the triangle (0,0),(10,0),(0,10) on a
\* 20x20 source gives a 10x10 output, zero beyond the hypotenuse (u+v > 10)
\* and the source pixel before it (u+v < 10).
C7_CropIsMaskedBoundingBox ==
    (event[1] = "release" /\ Len(selection) >= 3 /\ InsideRaster(selection, image)) =>
        /\ clip # None
        /\ inside_mask # None
        /\ LET out == clip[1]
               mask == inside_mask[1]
               xs == { selection[i][1] \div Scale : i \in 1..Len(selection) }
               ys == { selection[i][2] \div Scale : i \in 1..Len(selection) }
               w == SetMax(xs) - SetMin(xs)
               h == SetMax(ys) - SetMin(ys)
               src(u, v) == (SetMin(ys) + v) * image.width + SetMin(xs) + u
           IN /\ out.width = w
              /\ out.height = h
              /\ DOMAIN out.data = 0..(w * h - 1)
              /\ \A u \in 0..(w - 1), v \in 0..(h - 1) :
                    out.data[v * w + u] = IF mask[src(u, v)] THEN image.data[src(u, v)]
                                          ELSE <<0, 0, 0, 0>>
              /\ (selection = ExampleTriangle /\ image.width = 20 /\ image.height = 20) =>
                    /\ w = 10 /\ h = 10
                    /\ \A u \in 0..9, v \in 0..9 :
                          /\ u + v > 10 => out.data[v * 10 + u] = <<0, 0, 0, 0>>
                          /\ u + v < 10 => out.data[v * 10 + u] = image.data[v * 20 + u]

\* the crop of the example triangle, with a copied and a zeroed pixel
C7_Witness ==
    /\ event[1] = "release"
    /\ selection = ExampleTriangle
    /\ clip # None
    /\ clip[1].width = 10
    /\ clip[1].data[0] = image.data[0]
    /\ clip[1].data[99] = <<0, 0, 0, 0>>

\* C8: a pointer-move while Idle changes only the last-known cursor
\* position: polygon, selecting flag and timestamp are unchanged and no
\* redraw is requested, however much time has elapsed.
C8_IdleMoveOnlyTracksCursor ==
    [][ (event'[1] = "move" /\ ~selecting) =>
          /\ cursor_pos' = event'[2]
          /\ selection' = selection
          /\ selecting' = selecting
          /\ last_selection_event' = last_selection_event
          /\ calls' = <<>>
          /\ redraw_pending' = redraw_pending
          /\ UNCHANGED <<pc, window, pixels, image, frame, last_button>> ]_vars

\* an Idle move to a new position, more than the throttle after the last
\* accepted point, with a polygon left over from the previous gesture
C8_Witness ==
    /\ event[1] = "move"
    /\ ~before.selecting
    /\ ~selecting
    /\ now - last_selection_event >= ThrottleMs
    /\ cursor_pos = event[2]
    /\ cursor_pos # <<0, 0>>
    /\ Len(selection) >= 1
    /\ selection = before.selection
    /\ calls = <<>>

\* C9: the session starts Idle with an empty polygon; it is Selecting
\* exactly when the most recent pointer-button event was a press; after a
\* pointer-up that ended a gesture the session accepts a new gesture, whose
\* pointer-down starts from an empty polygon.
C9_SessionIsRestartable ==
    /\ event[1] = "none" => (~selecting /\ selection = <<>>)
    /\ selecting = (last_button = "pressed")
    /\ event[1] = "press" => selection = <<>>
    /\ (event[1] = "release" /\ before.selecting) => ENABLED MousePressed

\* the clipboard was reached and did not take the image
ClipboardFailed ==
    /\ "Clipboard::new" \in Range(calls)
    /\ "log: Image copied to clipboard!" \notin Range(calls)

\* C10: a clipboard publish failure on pointer-up is recoverable: the event
\* loop does not crash, the session state is not corrupted and a later
\* gesture is processed normally.
C10_ClipboardFailureIsRecoverable ==
    (event[1] = "release" /\ ClipboardFailed) =>
        /\ pc = "running"
        /\ ~selecting
        /\ selection = before.selection
        /\ ENABLED MousePressed

\* C11: polygon membership for degenerate polygons is asymmetric: with 0
\* points every pixel is reported inside, with 1 or 2 points every pixel is
\* reported outside.
C11_DegenerateMembershipIsAsymmetric ==
    (event[1] = "selection_mask" /\ Len(selection) < 3) =>
        \A i \in DOMAIN inside_mask[1] : inside_mask[1][i] = (Len(selection) = 0)

\* pixel x lies between the (2k-1)-th and the 2k-th sorted crossing of
\* scanline y, for some k
EvenOddInside(polygon, x, y) ==
    LET xs == SortAscending(Intersections(polygon, y))
    IN \E k \in 1..(Len(xs) \div 2) : RatLeq(xs[2 * k - 1], <<x, 1>>) /\ RatLeq(<<x, 1>>, xs[2 * k])

\* C12: for a self-intersecting or concave polygon every scanline follows
\* the even-odd rule on its sorted crossings: pixels between the 1st and 2nd,
\* 3rd and 4th, ... crossing are inside, pixels between the 2nd and 3rd, ...
\* are outside; both lobes of a bowtie are inside and the pixels of the pinch
\* point's row outside the lobes are outside.
C12_EvenOddRulePerScanline ==
    (event[1] = "selection_mask" /\ selection \in EvenOddShapes) =>
        /\ \A x \in 0..(image.width - 1), y \in 0..(image.height - 1) :
              inside_mask[1][y * image.width + x] = EvenOddInside(selection, x, y)
        /\ (selection = BowtieVertical(4) /\ image.width >= 5 /\ image.height >= 5) =>
              /\ inside_mask[1][1 * image.width + 2]
              /\ inside_mask[1][3 * image.width + 2]
              /\ inside_mask[1][2 * image.width + 2]
              /\ ~inside_mask[1][2 * image.width + 0]
              /\ ~inside_mask[1][2 * image.width + 1]
              /\ ~inside_mask[1][2 * image.width + 3]
              /\ ~inside_mask[1][2 * image.width + 4]

\* every point of the polygon lies left of column 0 or right of column width - 1
OutsideHorizontalRange(polygon, width) ==
    \/ \A i \in 1..Len(polygon) : polygon[i][1] < 0
    \/ \A i \in 1..Len(polygon) : polygon[i][1] > (width - 1) * Scale

\* C14: a pixel (x, y) is marked only if start <= x <= end for some crossing
\* pair (start, end) of scanline y, so a span entirely left of column 0 or
\* entirely right of column width - 1 marks no pixel, and a polygon wholly
\* outside the raster's horizontal range yields an all-false mask.
C14_SpansAreClippedToRaster ==
    (event[1] = "selection_mask") =>
        /\ \A x \in 0..(image.width - 1), y \in 0..(image.height - 1) :
              inside_mask[1][y * image.width + x] => EvenOddInside(selection, x, y)
        /\ OutsideHorizontalRange(selection, image.width) =>
              \A i \in DOMAIN inside_mask[1] : ~inside_mask[1][i]

\* the part of C14 the rasterizer keeps: spans right of the last column and
\* spans that reach into the raster mark only pixels between their crossings
C14_HoldsRightOfColumnZero ==
    (event[1] = "selection_mask") =>
        \A x \in 1..(image.width - 1), y \in 0..(image.height - 1) :
            inside_mask[1][y * image.width + x] => EvenOddInside(selection, x, y)

\* C15: a redraw is requested only by the pointer move that accepts a polygon
\* point, and such a move comes at least 100 ms after the previous one,
\* whatever pointer-downs and pointer-ups lie between them: the step that
\* requests a redraw or adds a point is a move doing both, 100 ms or more
\* after the time kept in last_selection_event, and that time is exactly the
\* time of the latest request (only a requesting move changes it, to now).
C15_RedrawRequestsAreThrottled ==
    [][ LET requests == "request_redraw" \in Range(calls')
            grows == Len(selection') > Len(selection)
        IN /\ (requests \/ grows) =>
                 /\ event'[1] = "move"
                 /\ requests
                 /\ selection' = Append(selection, event'[2])
                 /\ redraw_pending'
                 /\ now' - last_selection_event >= ThrottleMs
                 /\ last_selection_event' = now'
           /\ (last_selection_event' # last_selection_event) => requests
           /\ last_selection_event <= now
      ]_vars

\* a second point has been accepted and a second redraw requested
C15_Witness ==
    /\ event[1] = "move"
    /\ calls = <<"request_redraw">>
    /\ Len(selection) = 2
    /\ last_selection_event = now
    /\ now >= 2 * ThrottleMs

\* C16: crop extraction and clipboard delivery happen only for a pointer-up
\* that ends a Selecting gesture: a pointer-up received while Idle extracts
\* nothing, delivers nothing and leaves the event loop running.
C16_IdleReleaseDoesNothing ==
    (event[1] = "release" /\ ~before.selecting) =>
        /\ "selection_image" \notin Range(calls)
        /\ "Clipboard::new" \notin Range(calls)
        /\ "set_image" \notin Range(calls)
        /\ clip = None
        /\ pc = "running"

\* C17: for every polygon the crop extractor receives and gets past its size
\* computation with, every source pixel (x, y) it reads has x < width and
\* y < height, and every mask index y * width + x it reads is below
\* width * height.
C17_CropReadsStayInsideRaster ==
    (event[1] = "release" /\ "log: Selection size" \in Range(calls)) =>
        \A v \in CropVisits(image, selection) :
            /\ v[1] < image.width
            /\ v[2] < image.height
            /\ v[2] * image.width + v[1] < image.width * image.height

\* the source pixels (as indices y * width + x) a frame shows at full alpha
Undimmed(img, f) ==
    { i \in 0..(img.width * img.height - 1) : f[4 * i + 3] = img.data[i][4] }

\* the source pixels (as indices y * width + x) copied into the crop out of
\* the polygon's truncated bounding box
Copied(img, polygon, out) ==
    LET min_x == SetMin({ polygon[i][1] \div Scale : i \in 1..Len(polygon) })
        min_y == SetMin({ polygon[i][2] \div Scale : i \in 1..Len(polygon) })
    IN { (min_y + (o \div out.width)) * img.width + min_x + (o % out.width) :
           o \in { q \in DOMAIN out.data : out.data[q] # <<0, 0, 0, 0>> } }

\* C18: preview and crop agree: for a polygon of at least 3 points inside
\* the raster, the source pixels a redraw leaves at full alpha are exactly
\* the source pixels the pointer-up that follows copies into the crop.
C18_PreviewAndCropAgree ==
    [][ ( /\ event[1] = "redraw"
          /\ "frame_mut" \in Range(calls)
          /\ Len(selection) >= 3
          /\ InsideRaster(selection, image)
          /\ event'[1] = "release"
          /\ clip' # None )
        => Undimmed(image, frame) = Copied(image, selection, clip'[1]) ]_vars

\* C18, the direction the crop keeps: every copied pixel is shown undimmed
C18_CropIsSubsetOfPreview ==
    [][ ( /\ event[1] = "redraw"
          /\ "frame_mut" \in Range(calls)
          /\ Len(selection) >= 3
          /\ InsideRaster(selection, image)
          /\ event'[1] = "release"
          /\ clip' # None )
        => Copied(image, selection, clip'[1]) \subseteq Undimmed(image, frame) ]_vars

\* C19: for every width >= 1, height >= 1 and every polygon (any number of
\* points, inside or outside the raster, negative coordinates included) the
\* mask has exactly width * height entries, every write is at an index
\* y * width + x with 0 <= x < width and 0 <= y < height, and the entries
\* that are true are exactly the written ones.
C19_MaskWritesStayInsideMask ==
    (event[1] = "selection_mask") =>
        LET width == image.width
            height == image.height
            writes == MaskWrites(width, height, selection)
        IN /\ width >= 1 /\ height >= 1
           /\ DOMAIN inside_mask[1] = 0..(width * height - 1)
           /\ \A w \in writes : 0 <= w[1] /\ w[1] < width /\ 0 <= w[2] /\ w[2] < height
           /\ \A i \in 0..(width * height - 1) :
                 inside_mask[1][i] = (\E w \in writes : w[2] * width + w[1] = i)

\* the mask of a polygon with a point left of the raster and a point below
\* it, which marks some pixel of the last row and some pixel of column 0
C19_Witness ==
    /\ event[1] = "selection_mask"
    /\ image.width = ShapeW /\ image.height = ShapeH
    /\ \E i \in 1..Len(selection) : selection[i][1] < 0
    /\ \E i \in 1..Len(selection) : selection[i][2] > (image.height - 1) * Scale
    /\ \E x \in 0..(image.width - 1) : inside_mask[1][(image.height - 1) * image.width + x]
    /\ \E y \in 0..(image.height - 1) : inside_mask[1][y * image.width]

====
